---- MODULE Spec2Model ----
(***************************************************************************)
(* Model of certbot/files/certbot_manager.py: the polling loop of          *)
(* main_service, the per-row run_certbot call, and shutdown_handler.       *)
(* The file system, the resolver and the certbot tool are the environment. *)
(***************************************************************************)
EXTENDS Integers, Sequences, FiniteSets, TLC

(* ---------------------------------------------------------------- bounds *)
MaxRows == 2
MaxOutLen == 2
MaxErrLen == 3

(* ------------------------------------------------------------- constants *)
RETRY_DELAY == 60

NoneVal == "<None>"

\* values of --frequency tried (minutes); 60 is the argparse default
Frequencies == {-1, 60}

Domains == {"a.example", "b.example"}
ProviderKeys == {"CloudFlare-ops", "bind"}
HookArg == "hook.sh"

\* rows as csv.DictReader yields them; a short line leaves its last
\* column at the reader's restval, None
RowPool ==
  { [fqdn |-> "a.example", dns_provider |-> "CloudFlare-ops", email |-> "ops@example"],
    [fqdn |-> "b.example", dns_provider |-> "bind", email |-> "ops@example"],
    [fqdn |-> "b.example", dns_provider |-> "bind", email |-> NoneVal] }

RECURSIVE SeqsUpTo(_, _)
SeqsUpTo(S, n) ==
  IF n = 0 THEN {<<>>}
  ELSE LET shorter == SeqsUpTo(S, n - 1)
       IN shorter \cup {Append(s, x) : s \in {t \in shorter : Len(t) = n - 1}, x \in S}

\* the input files tried: up to MaxRows rows, no row written twice
Files == {f \in SeqsUpTo(RowPool, MaxRows) :
            \A i, j \in 1..Len(f) : f[i] = f[j] => i = j}

WellFormedRow(row) ==
  row.fqdn # NoneVal /\ row.dns_provider # NoneVal /\ row.email # NoneVal

WellFormed(rs) == \A k \in 1..Len(rs) : WellFormedRow(rs[k])

(* ------------------------------------------------------------ text values *)
\* text is a sequence of characters (stderr) or of tokens (stdout)
Whitespace == {" ", "\n"}
ErrChars == {"e", " ", "\n"}
OutTokens == {"Certificate", " not yet due", "Renewing"}
MARKER == <<"Certificate", " not yet due">>

\* sub in s
Contains(sub, s) ==
  \E i \in 1..(Len(s) - Len(sub) + 1) : SubSeq(s, i, i + Len(sub) - 1) = sub

RECURSIVE LStrip(_)
LStrip(s) ==
  IF s = <<>> THEN s
  ELSE IF Head(s) \in Whitespace THEN LStrip(Tail(s)) ELSE s

RECURSIVE RStrip(_)
RStrip(s) ==
  IF s = <<>> THEN s
  ELSE IF s[Len(s)] \in Whitespace THEN RStrip(SubSeq(s, 1, Len(s) - 1)) ELSE s

\* str.strip()
Strip(s) == RStrip(LStrip(s))

RECURSIVE SplitFrom(_, _, _)
SplitFrom(s, cur, acc) ==
  IF s = <<>> THEN Append(acc, cur)
  ELSE IF Head(s) = "\n" THEN SplitFrom(Tail(s), <<>>, Append(acc, cur))
       ELSE SplitFrom(Tail(s), Append(cur, Head(s)), acc)

\* str.split('\n')
Split(s) == SplitFrom(s, <<>>, <<>>)

(* -------------------------------------------------------------- variables *)
VARIABLES
  pc,            \* position of the main thread
  exitCode,      \* process exit status, -1 while the process lives
  args_hook,     \* args.hook
  frequency,     \* args.frequency
  hook_script,   \* main_service local
  rows,          \* rows of the reader opened in this cycle
  idx,           \* rows of this cycle already handled by the for loop
  cmd,           \* argv handed to subprocess.run by the current call
  result,        \* what subprocess.run produced last
  status,        \* classification printed last
  diag,          \* error lines printed last
  lastLog,       \* last log() message
  sleepSecs,     \* argument of the time.sleep in progress
  csvExists,     \* environment: the --csv path exists
  csvRows,       \* environment: rows of the --csv file
  credsExist,    \* environment: provider keys with an .ini in SECRETS_DIR
  toolInstalled, \* environment: the certbot executable can be launched
  hookIsFile,    \* environment: the --hook path is a regular file
  certs,         \* environment: domains holding a certificate not yet due
  calls,         \* history: run_certbot calls of this cycle
  toolCalls,     \* history: tool processes started in this cycle
  outcomes,      \* history: how each call of this cycle ended
  hookAtStartup, \* history: the --hook path was a file when main_service began
  sleepsDone,    \* history: sleeps run to their end since the last cycle start
  cycleDone,     \* history: the for loop of this cycle ran to its end
  dirty,         \* history: the environment changed since this cycle began
  prevQuiet,     \* history: the previous cycle ran all its rows and nothing changed since it began
  prevOk,        \* history: rows whose tool run exited 0 in that previous cycle
  signalled,     \* history: a SIGTERM or SIGINT was delivered
  raised,        \* history: the exception that left the try body of this cycle
  csvSeen,       \* history: what the existence check of this cycle found
  dnsFailed,     \* history: the DNS lookup of this cycle failed
  fileNews       \* history: whether the rows last read were read after an edit

vars == <<pc, exitCode, args_hook, frequency, hook_script, rows, idx, cmd,
          result, status, diag, lastLog, sleepSecs, csvExists, csvRows,
          credsExist, toolInstalled, hookIsFile, certs, calls, toolCalls,
          outcomes, hookAtStartup, sleepsDone, cycleDone, dirty, prevQuiet,
          prevOk, signalled, raised, csvSeen, dnsFailed, fileNews>>

cfgVars == <<args_hook, frequency, hook_script>>
jobVars == <<rows, idx, cmd, result, status, diag>>
envVars == <<csvExists, csvRows, credsExist, toolInstalled, hookIsFile, certs>>
cycleHist == <<calls, toolCalls, outcomes, cycleDone, csvSeen, dnsFailed>>
quietHist == <<dirty, prevQuiet, prevOk, fileNews>>

NoResult == [returncode |-> -1, stdout |-> <<>>, stderr |-> <<>>]

(* ------------------------------------------------------------ run_certbot *)
\* str.lower() on the provider keys in use
Lower(k) == IF k = "CloudFlare-ops" THEN "cloudflare-ops" ELSE k

\* "cloudflare" in s, for the lowered keys above
HasCloudflare(s) == s \in {"cloudflare-ops"}

Plugin(provider_key) ==
  IF HasCloudflare(Lower(provider_key)) THEN "cloudflare" ELSE "rfc2136"

\* SECRETS_DIR / f"{provider_key}.ini"
CredsPath(provider_key) == <<"/etc/letsencrypt/secrets", "/", provider_key, ".ini">>

\* the command line without the flag that keeps a certificate not yet due
BuildCmdNoKeep(fqdn, provider_key, email, hook) ==
  LET plugin == Plugin(provider_key)
      base == << <<"certbot">>, <<"certonly">>, <<"--non-interactive">>,
                 <<"--agree-tos">>, <<"--email">>, <<email>>,
                 <<"--dns-", plugin>>, <<"--dns-", plugin, "-credentials">>,
                 CredsPath(provider_key), <<"-d">>, <<fqdn>> >>
  IN IF hook # NoneVal
     THEN base \o << <<"--deploy-hook">>, <<hook, " ", fqdn>> >>
     ELSE base

\* every argv element is the sequence of pieces its (f-)string is made of;
\* a value passed as it is, is the one-piece element <<value>>
BuildCmd(fqdn, provider_key, email, hook) ==
  LET plugin == Plugin(provider_key)
      base == << <<"certbot">>, <<"certonly">>, <<"--non-interactive">>,
                 <<"--agree-tos">>, <<"--email">>, <<email>>,
                 <<"--dns-", plugin>>, <<"--dns-", plugin, "-credentials">>,
                 CredsPath(provider_key),
                 <<"--keep-until-expiring">>, <<"-d">>, <<fqdn>> >>
  IN IF hook # NoneVal
     THEN base \o << <<"--deploy-hook">>, <<hook, " ", fqdn>> >>
     ELSE base

HasArg(argv, flag) == \E i \in 1..Len(argv) : argv[i] = <<flag>>

\* the element that follows flag
ArgOf(argv, flag) ==
  argv[(CHOOSE i \in 1..(Len(argv) - 1) : argv[i] = <<flag>>) + 1]

\* the existence test left out
CredsMissingNever(provider_key, existing) == FALSE

\* not creds_path.exists()
CredsMissing(provider_key, existing) == provider_key \notin existing

\* Popen rejects an argv holding None before it starts anything
PopenTypeError(argv) == HasArg(argv, NoneVal)

\* the marker looked for before the exit code
StatusMarkerFirst(res) ==
  IF Contains(MARKER, res.stdout) THEN "AlreadyValid"
  ELSE IF res.returncode = 0 THEN "IssuedOrRenewed" ELSE "Failed"

Status(res) ==
  IF res.returncode = 0
  THEN IF Contains(MARKER, res.stdout) THEN "AlreadyValid" ELSE "IssuedOrRenewed"
  ELSE "Failed"

\* the lines printed after "Failed to process"
ErrorLines(res) ==
  IF res.returncode # 0 THEN Split(Strip(res.stderr)) ELSE <<>>

(* ------------------------------------------------------------ environment *)
\* the certbot tool as its interface contract describes it: with
\* --keep-until-expiring a certificate not yet due is left alone and
\* reported; otherwise issuance is tried and succeeds or fails
ToolRun(argv, certValid) ==
  IF certValid /\ HasArg(argv, "--keep-until-expiring")
  THEN { [returncode |-> 0, stdout |-> MARKER, stderr |-> <<>>] }
  ELSE { [returncode |-> 0, stdout |-> <<"Renewing">>, stderr |-> <<>>],
         [returncode |-> 1, stdout |-> <<>>, stderr |-> <<"e", "\n">>] }

(* ------------------------------------------------------------ main_service *)
\* Path.resolve() of the hook path
Resolve(p) == IF p = HookArg THEN "/cwd/hook.sh" ELSE p

\* the hook taken without looking at the path
ResolveHookUnchecked(hook, isFile) ==
  IF hook # NoneVal THEN Resolve(hook) ELSE NoneVal

\* the hook path kept as given
ResolveHookRelative(hook, isFile) ==
  IF hook # NoneVal /\ isFile THEN hook ELSE NoneVal

\* lines 80-85
ResolveHook(hook, isFile) ==
  IF hook # NoneVal /\ isFile THEN Resolve(hook) ELSE NoneVal

Sleeping == {"sleep_freq", "sleep_missing", "sleep_exc"}
Running == {"cycle_start", "check_csv", "open_csv", "loop", "in_tool"}

\* the exceptions the cycle body raises here, all subclasses of Exception
ExceptionKinds ==
  {"gaierror", "FileNotFoundError", "TypeError", "AttributeError", "ValueError"}

\* a handler for OSError only
ExceptionCaughtOSError(kind) == kind \in {"gaierror", "FileNotFoundError"}

\* no handler around the cycle body
ExceptionCaughtNever(kind) == FALSE

\* `except Exception` of line 111
ExceptionCaught(kind) == kind \in ExceptionKinds

\* the retry sleeping the cycle interval
RetrySleepFreq(freq) == freq * 60

\* line 113
RetrySleep(freq) == RETRY_DELAY

\* the missing-file retry sleeping the cycle interval
MissingSleepFreq(freq) == freq * 60

\* line 97
MissingSleep(freq) == RETRY_DELAY

\* the interval taken as seconds
CycleSleepMinutes(freq) == freq

\* line 109
CycleSleep(freq) == freq * 60

\* time.sleep(secs) refuses a negative length
SleepRaises(secs) == secs < 0

\* a handler that also stops SystemExit raised during a sleep of the try body
ExitCaughtInSleep(where) == where \in {"sleep_freq", "sleep_missing"}

\* a lookup failure taken for a falsy return value
DnsRaisesNever(ok) == FALSE

\* line 92: gethostbyname raises when the name does not resolve
DnsRaises(ok) == ~ok

\* the first data row lost
ReadRowsSkipFirst(file) == IF file = <<>> THEN file ELSE Tail(file)

\* lines 102-103: the reader yields the data rows of the file just opened
ReadRows(file) == file

\* the loop going on where the last cycle stopped
FirstRowResume(i) == i

\* line 104: the for loop of a cycle starts before the first row
FirstRow(i) == 0

\* Popen without waiting for the tool
RunWaitsNever(argv) == FALSE

\* line 63: subprocess.run returns only when the tool has ended
RunWaits(argv) == TRUE

\* line 98 without its continue: on to the open
WakeToNoContinue(where) ==
  IF where = "sleep_missing" THEN "open_csv" ELSE "cycle_start"

\* lines 98, 109, 113: after each sleep the while loop goes round
WakeTo(where) == "cycle_start"

\* a handler that also stops SystemExit raised in the try body
ExitCaughtInTry(where) == where \in {"cycle_start", "check_csv", "open_csv", "loop", "in_tool"}

\* whether the `except Exception` of line 111 stops the SystemExit that
\* sys.exit(0) raises at position where: SystemExit is no Exception
ExitCaught(where) == FALSE

Init ==
  /\ pc = "startup"
  /\ exitCode = -1
  /\ args_hook \in {NoneVal, HookArg}
  /\ frequency \in Frequencies
  /\ hook_script = NoneVal
  /\ rows = <<>>
  /\ idx = 0
  /\ cmd = <<>>
  /\ result = NoResult
  /\ status = NoneVal
  /\ diag = <<>>
  /\ lastLog = NoneVal
  /\ sleepSecs = 0
  /\ csvExists \in BOOLEAN
  /\ csvRows \in Files
  /\ credsExist \in SUBSET ProviderKeys
  /\ toolInstalled \in BOOLEAN
  /\ hookIsFile \in (IF args_hook = NoneVal THEN {FALSE} ELSE BOOLEAN)
  /\ certs \in SUBSET Domains
  /\ calls = 0
  /\ toolCalls = 0
  /\ outcomes = <<>>
  /\ hookAtStartup = FALSE
  /\ sleepsDone = 0
  /\ cycleDone = FALSE
  /\ dirty = TRUE
  /\ prevQuiet = FALSE
  /\ prevOk = {}
  /\ signalled = FALSE
  /\ raised = NoneVal
  /\ csvSeen = "unchecked"
  /\ dnsFailed = FALSE
  /\ fileNews = "unread"

\* lines 79-85
Startup ==
  /\ pc = "startup"
  /\ hook_script' = ResolveHook(args_hook, hookIsFile)
  /\ hookAtStartup' = (args_hook # NoneVal /\ hookIsFile)
  /\ pc' = "cycle_start"
  /\ UNCHANGED <<exitCode, args_hook, frequency, lastLog, sleepSecs>>
  /\ UNCHANGED jobVars
  /\ UNCHANGED envVars
  /\ UNCHANGED cycleHist
  /\ UNCHANGED quietHist
  /\ UNCHANGED <<sleepsDone, signalled, raised>>

\* lines 111-113: an exception leaves the try body; the handler logs it and
\* sleeps, or, were it not caught, the interpreter ends with a traceback
Caught(kind) ==
  /\ raised' = kind
  /\ IF ExceptionCaught(kind)
     THEN /\ lastLog' = "runtime_exception"
          /\ pc' = "sleep_exc"
          /\ sleepSecs' = RetrySleep(frequency)
          /\ UNCHANGED exitCode
     ELSE /\ lastLog' = "traceback"
          /\ pc' = "exited"
          /\ exitCode' = 1
          /\ UNCHANGED sleepSecs

ExitOk == {k \in 1..Len(outcomes) : outcomes[k] \in {"AlreadyValid", "IssuedOrRenewed"}}

\* lines 88-93: a new pass of the while loop, up to the DNS lookup
CycleStart ==
  /\ pc = "cycle_start"
  /\ rows' = <<>> /\ idx' = FirstRow(idx) /\ cmd' = <<>> /\ result' = NoResult
  /\ status' = NoneVal /\ diag' = <<>>
  /\ calls' = 0 /\ toolCalls' = 0 /\ outcomes' = <<>> /\ sleepsDone' = 0
  /\ cycleDone' = FALSE /\ csvSeen' = "unchecked"
  /\ prevQuiet' = (cycleDone /\ ~dirty)
  /\ prevOk' = IF cycleDone /\ ~dirty THEN ExitOk ELSE {}
  /\ dirty' = FALSE
  /\ UNCHANGED fileNews
  /\ \E dnsOk \in BOOLEAN :
       /\ dnsFailed' = ~dnsOk
       /\ IF ~DnsRaises(dnsOk)
          THEN /\ lastLog' = "cycle_start"
               /\ pc' = "check_csv"
               /\ sleepSecs' = 0
               /\ raised' = NoneVal
               /\ UNCHANGED exitCode
          ELSE Caught("gaierror")
  /\ UNCHANGED <<cfgVars, hookAtStartup, signalled>>
  /\ UNCHANGED envVars

\* lines 95-100
CheckCsv ==
  /\ pc = "check_csv"
  /\ IF ~csvExists
     THEN /\ lastLog' = "csv_missing"
          /\ pc' = "sleep_missing"
          /\ sleepSecs' = MissingSleep(frequency)
     ELSE /\ lastLog' = "reading"
          /\ pc' = "open_csv"
          /\ sleepSecs' = 0
  /\ csvSeen' = IF csvExists THEN "present" ELSE "missing"
  /\ UNCHANGED <<exitCode, cfgVars, jobVars>>
  /\ UNCHANGED envVars
  /\ UNCHANGED <<calls, toolCalls, outcomes, cycleDone, dnsFailed>>
  /\ UNCHANGED quietHist
  /\ UNCHANGED <<hookAtStartup, sleepsDone, signalled, raised>>

\* lines 102-103
OpenCsv ==
  /\ pc = "open_csv"
  /\ IF csvExists
     THEN /\ rows' = ReadRows(csvRows)
          /\ pc' = "loop"
          /\ fileNews' = IF fileNews = "edited" THEN "reread" ELSE "same"
          /\ UNCHANGED <<lastLog, sleepSecs, exitCode, raised>>
     ELSE /\ Caught("FileNotFoundError")
          /\ UNCHANGED <<rows, fileNews>>
  /\ UNCHANGED <<cfgVars, idx, cmd, result, status, diag>>
  /\ UNCHANGED envVars
  /\ UNCHANGED cycleHist
  /\ UNCHANGED <<dirty, prevQuiet, prevOk>>
  /\ UNCHANGED <<hookAtStartup, sleepsDone, signalled>>

\* lines 104, 107-109: the reader is exhausted
CycleComplete ==
  /\ pc = "loop"
  /\ idx = Len(rows)
  /\ cycleDone' = TRUE
  /\ IF SleepRaises(CycleSleep(frequency))
     THEN Caught("ValueError")
     ELSE /\ lastLog' = "cycle_complete"
          /\ pc' = "sleep_freq"
          /\ sleepSecs' = CycleSleep(frequency)
          /\ UNCHANGED <<exitCode, raised>>
  /\ UNCHANGED <<cfgVars, jobVars>>
  /\ UNCHANGED envVars
  /\ UNCHANGED <<calls, toolCalls, outcomes, csvSeen, dnsFailed>>
  /\ UNCHANGED quietHist
  /\ UNCHANGED <<hookAtStartup, sleepsDone, signalled>>

\* lines 104-105 and 42-63: the next row goes through run_certbot up to
\* the start of the tool
StartJob ==
  /\ pc = "loop"
  /\ idx < Len(rows)
  /\ LET row == rows[idx + 1]
         argv == BuildCmd(row.fqdn, row.dns_provider, row.email, hook_script)
     IN /\ calls' = calls + 1
        /\ IF row.dns_provider = NoneVal
           THEN \* None.lower()
                /\ Caught("AttributeError")
                /\ outcomes' = Append(outcomes, "Raised")
                /\ UNCHANGED <<idx, cmd, toolCalls>>
           ELSE IF CredsMissing(row.dns_provider, credsExist)
           THEN /\ lastLog' = "creds_missing"
                /\ outcomes' = Append(outcomes, "CredentialsMissing")
                /\ idx' = idx + 1
                /\ UNCHANGED <<pc, sleepSecs, exitCode, raised, cmd, toolCalls>>
           ELSE IF PopenTypeError(argv)
           THEN /\ Caught("TypeError")
                /\ outcomes' = Append(outcomes, "Raised")
                /\ cmd' = argv
                /\ UNCHANGED <<idx, toolCalls>>
           ELSE IF ~toolInstalled
           THEN /\ Caught("FileNotFoundError")
                /\ outcomes' = Append(outcomes, "Raised")
                /\ cmd' = argv
                /\ UNCHANGED <<idx, toolCalls>>
           ELSE /\ pc' = IF RunWaits(argv) THEN "in_tool" ELSE "loop"
                /\ cmd' = argv
                /\ toolCalls' = toolCalls + 1
                /\ UNCHANGED <<idx, lastLog, sleepSecs, exitCode, raised, outcomes>>
  /\ UNCHANGED <<cfgVars, rows, result, status, diag>>
  /\ UNCHANGED envVars
  /\ UNCHANGED quietHist
  /\ UNCHANGED <<hookAtStartup, sleepsDone, cycleDone, csvSeen, dnsFailed, signalled>>

\* lines 63-75: the tool ends and its result is classified
ToolReturns ==
  /\ pc = "in_tool"
  /\ LET domain == ArgOf(cmd, "-d")[1]
     IN \E res \in ToolRun(cmd, domain \in certs) :
          /\ result' = res
          /\ status' = Status(res)
          /\ diag' = ErrorLines(res)
          /\ outcomes' = Append(outcomes, Status(res))
          /\ lastLog' = IF Status(res) = "Failed" THEN "failed" ELSE lastLog
          /\ certs' = IF res.returncode = 0 THEN certs \cup {domain} ELSE certs
  /\ idx' = idx + 1
  /\ pc' = "loop"
  /\ UNCHANGED <<exitCode, cfgVars, rows, cmd, sleepSecs>>
  /\ UNCHANGED <<csvExists, csvRows, credsExist, toolInstalled, hookIsFile>>
  /\ UNCHANGED <<calls, toolCalls, cycleDone, csvSeen, dnsFailed>>
  /\ UNCHANGED quietHist
  /\ UNCHANGED <<hookAtStartup, sleepsDone, signalled, raised>>

\* a time.sleep of line 97, 109 or 113 runs to its end; the loop goes round
Wake ==
  /\ pc \in Sleeping
  /\ pc' = WakeTo(pc)
  /\ sleepsDone' = sleepsDone + 1
  /\ UNCHANGED <<exitCode, cfgVars, lastLog, sleepSecs>>
  /\ UNCHANGED jobVars
  /\ UNCHANGED envVars
  /\ UNCHANGED cycleHist
  /\ UNCHANGED quietHist
  /\ UNCHANGED <<hookAtStartup, signalled, raised>>

\* lines 116-119, 123-124: SIGTERM or SIGINT arrives, shutdown_handler runs
\* in the main thread wherever that is
Signal ==
  /\ pc # "exited"
  /\ signalled' = TRUE
  /\ IF ExitCaught(pc)
     THEN /\ lastLog' = "runtime_exception"
          /\ pc' = "sleep_exc"
          /\ sleepSecs' = RetrySleep(frequency)
          /\ UNCHANGED exitCode
     ELSE /\ lastLog' = "shutdown"
          /\ pc' = "exited"
          /\ exitCode' = 0
          /\ UNCHANGED sleepSecs
  /\ UNCHANGED cfgVars
  /\ UNCHANGED jobVars
  /\ UNCHANGED envVars
  /\ UNCHANGED cycleHist
  /\ UNCHANGED quietHist
  /\ UNCHANGED <<hookAtStartup, sleepsDone, raised>>

(* ---------------------------------------------------- environment changes *)
Alive == pc \notin {"startup", "exited"}

Changed ==
  /\ dirty' = TRUE
  /\ prevQuiet' = FALSE
  /\ prevOk' = {}
  /\ UNCHANGED <<pc, exitCode, cfgVars, lastLog, sleepSecs>>
  /\ UNCHANGED fileNews
  /\ UNCHANGED jobVars
  /\ UNCHANGED cycleHist
  /\ UNCHANGED <<hookAtStartup, sleepsDone, signalled, raised>>

EnvCsv ==
  /\ Alive
  /\ csvExists' = ~csvExists
  /\ UNCHANGED <<csvRows, credsExist, toolInstalled, hookIsFile, certs>>
  /\ Changed

EnvCreds ==
  /\ Alive
  /\ \E p \in ProviderKeys :
       credsExist' = IF p \in credsExist THEN credsExist \ {p} ELSE credsExist \cup {p}
  /\ UNCHANGED <<csvExists, csvRows, toolInstalled, hookIsFile, certs>>
  /\ Changed

EnvTool ==
  /\ Alive
  /\ toolInstalled' = ~toolInstalled
  /\ UNCHANGED <<csvExists, csvRows, credsExist, hookIsFile, certs>>
  /\ Changed

EnvHook ==
  /\ Alive
  /\ args_hook # NoneVal
  /\ hookIsFile' = ~hookIsFile
  /\ UNCHANGED <<csvExists, csvRows, credsExist, toolInstalled, certs>>
  /\ Changed

EnvCertDue ==
  /\ Alive
  /\ \E d \in certs : certs' = certs \ {d}
  /\ UNCHANGED <<csvExists, csvRows, credsExist, toolInstalled, hookIsFile>>
  /\ Changed

\* the input file is rewritten with other rows
EnvEdit ==
  /\ Alive
  /\ \E f \in Files : f # csvRows /\ csvRows' = f
  /\ fileNews' = IF fileNews = "unread" THEN "unread" ELSE "edited"
  /\ dirty' = TRUE
  /\ prevQuiet' = FALSE
  /\ prevOk' = {}
  /\ UNCHANGED <<csvExists, credsExist, toolInstalled, hookIsFile, certs>>
  /\ UNCHANGED <<pc, exitCode, cfgVars, lastLog, sleepSecs>>
  /\ UNCHANGED jobVars
  /\ UNCHANGED cycleHist
  /\ UNCHANGED <<hookAtStartup, sleepsDone, signalled, raised>>

Next ==
  \/ Startup
  \/ CycleStart
  \/ CheckCsv
  \/ OpenCsv
  \/ StartJob
  \/ ToolReturns
  \/ CycleComplete
  \/ Wake
  \/ Signal
  \/ EnvCsv
  \/ EnvCreds
  \/ EnvTool
  \/ EnvHook
  \/ EnvCertDue

Spec == Init /\ [][Next]_vars

(* ------------------------------------------------ the loop under fairness *)
\* one --frequency, no hook, credentials in place
InitLive ==
  /\ Init
  /\ frequency = 60
  /\ args_hook = NoneVal
  /\ credsExist = ProviderKeys
  /\ certs = {}

NextLive ==
  \/ Startup
  \/ CycleStart
  \/ CheckCsv
  \/ OpenCsv
  \/ StartJob
  \/ ToolReturns
  \/ CycleComplete
  \/ Wake
  \/ Signal
  \/ EnvCsv
  \/ EnvTool

\* the interpreter keeps executing the main thread, every sleep ends, and
\* every tool run ends
Fairness ==
  /\ WF_vars(Startup)
  /\ WF_vars(CycleStart)
  /\ WF_vars(CheckCsv)
  /\ WF_vars(OpenCsv)
  /\ WF_vars(StartJob)
  /\ WF_vars(CycleComplete)
  /\ WF_vars(Wake)
  /\ WF_vars(ToolReturns)

SpecLive == InitLive /\ [][NextLive]_vars /\ Fairness

(* ------------------------------------------- the loop with the file edited *)
InitEdit ==
  /\ Init
  /\ frequency = 60
  /\ args_hook = NoneVal
  /\ toolInstalled
  /\ certs = {}

NextEdit ==
  \/ Startup
  \/ CycleStart
  \/ CheckCsv
  \/ OpenCsv
  \/ StartJob
  \/ ToolReturns
  \/ CycleComplete
  \/ Wake
  \/ Signal
  \/ EnvCsv
  \/ EnvEdit

SpecEdit == InitEdit /\ [][NextEdit]_vars

(* --------------------------------------- classification on its own inputs *)
ToolResults ==
  [returncode : {0, 1, 2},
   stdout : SeqsUpTo(OutTokens, MaxOutLen),
   stderr : SeqsUpTo(ErrChars, MaxErrLen)]

\* subprocess.run has just handed back some result
InitClassify ==
  /\ pc = "tool_returned"
  /\ result \in ToolResults
  /\ exitCode = -1
  /\ args_hook = NoneVal
  /\ frequency = 60
  /\ hook_script = NoneVal
  /\ rows = <<>>
  /\ idx = 0
  /\ cmd = <<>>
  /\ status = NoneVal
  /\ diag = <<>>
  /\ lastLog = NoneVal
  /\ sleepSecs = 0
  /\ csvExists = TRUE
  /\ csvRows = <<>>
  /\ credsExist = {}
  /\ toolInstalled = TRUE
  /\ hookIsFile = FALSE
  /\ certs = {}
  /\ calls = 0
  /\ toolCalls = 0
  /\ outcomes = <<>>
  /\ hookAtStartup = FALSE
  /\ sleepsDone = 0
  /\ cycleDone = FALSE
  /\ dirty = TRUE
  /\ prevQuiet = FALSE
  /\ prevOk = {}
  /\ signalled = FALSE
  /\ raised = NoneVal
  /\ csvSeen = "unchecked"
  /\ dnsFailed = FALSE
  /\ fileNews = "unread"

\* lines 64-73 on that result
Classify ==
  /\ pc = "tool_returned"
  /\ status' = Status(result)
  /\ diag' = ErrorLines(result)
  /\ lastLog' = IF Status(result) = "Failed" THEN "failed" ELSE lastLog
  /\ pc' = "classified"
  /\ UNCHANGED <<exitCode, cfgVars, rows, idx, cmd, result, sleepSecs>>
  /\ UNCHANGED envVars
  /\ UNCHANGED cycleHist
  /\ UNCHANGED quietHist
  /\ UNCHANGED <<hookAtStartup, sleepsDone, signalled, raised>>

NextClassify == Classify

SpecClassify == InitClassify /\ [][NextClassify]_vars

(* ------------------------------------------------------------- properties *)
\* C1: a cycle that read a well-formed file of N rows has made exactly N
\* calls of run_certbot when it goes to sleep, whatever the rows' outcomes.
C1_EveryRowAttempted ==
  (pc \in Sleeping /\ WellFormed(rows)) => calls = Len(rows)

\* C2: without a signal the process never exits: it is starting, running a
\* cycle or sleeping, and an exception raised in the cycle body is followed
\* by the retry sleep and the next pass of the loop.
C2_NoProcessingErrorExits ==
  /\ ~signalled => (exitCode = -1 /\ pc \in {"startup"} \cup Running \cup Sleeping)
  /\ (raised # NoneVal /\ ~signalled) => pc \in {"sleep_exc", "cycle_start"}

C2_Witness ==
  /\ raised = "ValueError" /\ pc = "cycle_start" /\ sleepsDone = 1 /\ ~signalled

\* C3: a call of run_certbot for a row whose credential file is absent starts
\* no tool, raises nothing, records CredentialsMissing and leaves the for
\* loop at the next row.
C3_CredentialsMissingSkipsTool ==
  [][ ( /\ pc = "loop"
        /\ idx < Len(rows)
        /\ calls' = calls + 1
        /\ rows[idx + 1].dns_provider # NoneVal
        /\ rows[idx + 1].dns_provider \notin credsExist )
      => ( /\ toolCalls' = toolCalls
           /\ raised' = raised
           /\ pc' = "loop"
           /\ rows' = rows
           /\ idx' = idx + 1
           /\ lastLog' = "creds_missing"
           /\ outcomes' = Append(outcomes, "CredentialsMissing") ) ]_vars

C3_Witness ==
  \E k \in 1..(Len(outcomes) - 1) :
    /\ outcomes[k] = "CredentialsMissing"
    /\ outcomes[k + 1] \in {"AlreadyValid", "IssuedOrRenewed", "Failed"}
    /\ toolCalls = 1

\* C4 as stated: a cycle throughout which the input file does not exist logs
\* the missing file, calls no job and sleeps RETRY_DELAY.
C4_MissingFileLogged ==
  (pc \in Sleeping /\ ~csvExists /\ ~dirty)
    => (lastLog = "csv_missing" /\ calls = 0 /\ sleepSecs = RETRY_DELAY)

\* C4 amended: a cycle whose existence check finds no input file logs the
\* missing file, calls no job and sleeps RETRY_DELAY; a cycle whose DNS
\* lookup fails never makes the check, and one whose file goes between check
\* and open fails in the open: both log a runtime exception, call no job and
\* sleep RETRY_DELAY. No cycle reads rows without its own existence check.
C4_MissingFileRetries ==
  /\ (pc \in Sleeping /\ csvSeen = "missing")
       => ( /\ pc = "sleep_missing" /\ lastLog = "csv_missing" /\ raised = NoneVal
            /\ calls = 0 /\ toolCalls = 0 /\ rows = <<>>
            /\ sleepSecs = RETRY_DELAY )
  /\ (pc \in Sleeping /\ raised = "gaierror")
       => ( /\ pc = "sleep_exc" /\ lastLog = "runtime_exception"
            /\ csvSeen = "unchecked" /\ calls = 0 /\ toolCalls = 0
            /\ sleepSecs = RETRY_DELAY )
  /\ (pc \in Sleeping /\ raised = "FileNotFoundError" /\ calls = 0)
       => ( /\ pc = "sleep_exc" /\ lastLog = "runtime_exception"
            /\ csvSeen = "present" /\ toolCalls = 0 /\ rows = <<>>
            /\ sleepSecs = RETRY_DELAY )
  /\ pc \in {"open_csv", "loop", "in_tool"} => csvSeen = "present"
  /\ rows # <<>> => csvSeen = "present"

C4_Witness ==
  /\ pc = "sleep_missing" /\ csvSeen = "missing" /\ frequency = 60
  /\ sleepSecs = RETRY_DELAY /\ csvRows # <<>>

\* C5: a signal delivered during any of the three sleeps ends the process
\* with exit code 0; the sleep is not completed, no job is called, and an
\* exited process takes no further step.
C5_SignalInSleepExits ==
  [][ /\ pc # "exited"
      /\ (pc \in Sleeping /\ signalled' /\ ~signalled)
           => ( /\ pc' = "exited" /\ exitCode' = 0
                /\ sleepsDone' = sleepsDone /\ calls' = calls
                /\ lastLog' = "shutdown" ) ]_vars

C5_Witness ==
  /\ pc = "exited" /\ exitCode = 0 /\ signalled
  /\ sleepSecs = RETRY_DELAY /\ raised # NoneVal /\ sleepsDone = 0

RECURSIVE JoinLines(_)
JoinLines(lines) ==
  IF Len(lines) = 0 THEN <<>>
  ELSE IF Len(lines) = 1 THEN lines[1]
  ELSE lines[1] \o <<"\n">> \o JoinLines(Tail(lines))

MarkerIn(out) ==
  \E i \in 1..(Len(out) - 1) : out[i] = "Certificate" /\ out[i + 1] = " not yet due"

\* C6 as stated: the diagnostic of a non-zero exit is stderr split into lines.
C6_DiagnosticIsStderrLines ==
  (pc = "classified" /\ result.returncode # 0) => diag = Split(result.stderr)

\* C6 amended: exit 0 with the marker is AlreadyValid, exit 0 without it
\* IssuedOrRenewed, any other exit Failed, exactly one of the three; the
\* diagnostic of Failed is stderr without its leading and trailing
\* whitespace, cut at the newlines.
C6_Classification ==
  pc = "classified" =>
    /\ status \in {"AlreadyValid", "IssuedOrRenewed", "Failed"}
    /\ status = "AlreadyValid" <=> (result.returncode = 0 /\ MarkerIn(result.stdout))
    /\ status = "IssuedOrRenewed" <=> (result.returncode = 0 /\ ~MarkerIn(result.stdout))
    /\ status = "Failed" <=> result.returncode # 0
    /\ result.returncode = 0 => diag = <<>>
    /\ result.returncode # 0 =>
         LET core == JoinLines(diag)
         IN /\ Len(diag) >= 1
            /\ \A k \in 1..Len(diag) : \A i \in 1..Len(diag[k]) : diag[k][i] # "\n"
            /\ core # <<>> => (core[1] \notin Whitespace /\ core[Len(core)] \notin Whitespace)
            /\ \E pre \in SeqsUpTo(Whitespace, MaxErrLen) :
                 \E suf \in SeqsUpTo(Whitespace, MaxErrLen) :
                   result.stderr = pre \o core \o suf

C6_Witness ==
  /\ pc = "classified" /\ status = "Failed"
  /\ diag # Split(result.stderr) /\ diag # << <<>> >>
  /\ MarkerIn(result.stdout)

\* C7: when the --hook path was no regular file as main_service began, no
\* argv of the run holds --deploy-hook, whatever becomes of the path later.
C7_NoHookWithoutStartupFile ==
  (pc # "startup" /\ ~hookAtStartup)
    => (hook_script = NoneVal /\ ~HasArg(cmd, "--deploy-hook"))

C7_Witness ==
  /\ pc = "in_tool" /\ ~hookAtStartup /\ args_hook # NoneVal /\ hookIsFile

C9_UncaughtGoesToRetry ==
  (raised # NoneVal /\ ~signalled) =>
    /\ pc \in {"sleep_exc", "cycle_start"}
    /\ lastLog = "runtime_exception"
    /\ sleepSecs = RETRY_DELAY
    /\ sleepsDone = (IF pc = "cycle_start" THEN 1 ELSE 0)
    /\ toolCalls = Cardinality({k \in 1..Len(outcomes) : outcomes[k] \notin {"CredentialsMissing", "Raised"}})
    /\ ~cycleDone => \/ calls = 0 /\ rows = <<>>
                     \/ /\ calls = idx + 1 /\ idx < Len(rows)
                        /\ Len(outcomes) = calls /\ outcomes[calls] = "Raised"

C9_Witness ==
  /\ pc = "sleep_exc" /\ raised = "FileNotFoundError" /\ frequency = 60
  /\ calls = 1 /\ Len(rows) = 2 /\ sleepSecs = RETRY_DELAY

C11_CyclesForever ==
  /\ ([]~signalled) => []<>(pc = "cycle_start")
  /\ [][ pc = "in_tool" =>
           \/ /\ pc' = "in_tool"
              /\ calls' = calls /\ idx' = idx /\ outcomes' = outcomes
              /\ sleepsDone' = sleepsDone /\ sleepSecs' = sleepSecs
           \/ /\ pc' = "loop"
              /\ Len(outcomes') = Len(outcomes) + 1
              /\ outcomes'[Len(outcomes')] \in {"AlreadyValid", "IssuedOrRenewed", "Failed"}
           \/ pc' = "exited" /\ signalled' ]_vars

C11_Witness ==
  /\ pc = "cycle_start" /\ sleepsDone = 1 /\ ~signalled
  /\ toolCalls = 2 /\ Len(outcomes) = 2 /\ cycleDone

\* C12: a signal delivered while the main thread is inside the try body,
\* a tool run in flight included, is not taken by the cycle's handler: the
\* shutdown message is logged, the process exits with code 0, no further
\* row is called, no retry sleep begins, and nothing follows the exit.
C12_SignalWhileRunningExits ==
  [][ /\ (pc \in Running /\ signalled' /\ ~signalled)
           => ( /\ pc' = "exited" /\ exitCode' = 0 /\ lastLog' = "shutdown"
                /\ calls' = calls /\ toolCalls' = toolCalls
                /\ outcomes' = outcomes /\ raised' = raised
                /\ sleepSecs' = sleepSecs )
      /\ ~signalled ]_vars

C12_Witness ==
  /\ pc = "exited" /\ exitCode = 0 /\ signalled /\ lastLog = "shutdown"
  /\ Len(rows) = 2 /\ calls = 1 /\ toolCalls = 1 /\ outcomes = <<>>
  /\ sleepSecs = 0 /\ raised = NoneVal

\* C13 as stated: a row with a required field missing aborts the cycle: its
\* call of run_certbot ends in an exception caught at the cycle boundary.
C13_MissingFieldAborts ==
  \A k \in 1..Len(outcomes) : ~WellFormedRow(rows[k]) => outcomes[k] = "Raised"

InFlight ==
  toolCalls - Cardinality({k \in 1..Len(outcomes) :
                             outcomes[k] \in {"AlreadyValid", "IssuedOrRenewed", "Failed"}})

\* C14: rows are called one after the other in file order, at most one tool
\* run is in flight, the next row is called only when the tool run of the
\* row before has returned, and a cycle begins only from the start of
\* main_service or from a sleep that followed the cycle before.
C14_Sequential ==
  /\ [] ( /\ InFlight \in {0, 1}
          /\ (InFlight = 1) <=> (pc = "in_tool" \/ (pc = "exited" /\ calls = Len(outcomes) + 1))
          /\ calls \in {idx, idx + 1}
          /\ Len(outcomes) \in {idx, idx + 1}
          /\ Len(outcomes) <= calls /\ calls <= Len(rows)
          /\ pc = "in_tool" => ( /\ calls = idx + 1 /\ Len(outcomes) = idx
                                 /\ ArgOf(cmd, "-d") = <<rows[idx + 1].fqdn>> )
          /\ pc = "loop" => (calls = idx /\ Len(outcomes) = idx) )
  /\ [][ /\ calls' # calls => (calls' = 0 \/ (calls' = calls + 1 /\ pc = "loop" /\ InFlight = 0))
         /\ (pc' = "cycle_start" /\ pc # "cycle_start") => pc \in Sleeping \cup {"startup"}
         /\ (pc = "cycle_start" /\ pc' # "cycle_start") => pc' \in {"check_csv", "sleep_exc", "exited"} ]_vars

C14_Witness ==
  /\ pc = "in_tool" /\ idx = 1 /\ calls = 2 /\ toolCalls = 2 /\ InFlight = 1
  /\ outcomes[1] \in {"AlreadyValid", "IssuedOrRenewed", "Failed"}

\* C15: every cycle reads the rows anew: the rows a cycle works on are those
\* the file holds when that cycle opens it, nothing of an earlier cycle is
\* left when the open is reached, each tool run is built from the row at
\* its place in those rows, and a cycle that ends has called them all.
C15_RowsReadEveryCycle ==
  /\ [][ (pc = "open_csv" /\ pc' = "loop") => (rows' = csvRows /\ idx' = 0) ]_vars
  /\ [] ( /\ pc \in {"check_csv", "open_csv"}
               => (rows = <<>> /\ calls = 0 /\ outcomes = <<>> /\ cmd = <<>>)
          /\ pc = "in_tool"
               => ( /\ ArgOf(cmd, "-d") = <<rows[idx + 1].fqdn>>
                    /\ ArgOf(cmd, "--email") = <<rows[idx + 1].email>>
                    /\ cmd[9] = <<"/etc/letsencrypt/secrets", "/", rows[idx + 1].dns_provider, ".ini">> )
          /\ cycleDone => (calls = Len(rows) /\ Len(outcomes) = Len(rows)) )

C15_Witness ==
  /\ fileNews = "reread" /\ pc = "in_tool" /\ idx = 1
  /\ rows = csvRows /\ Len(rows) = 2

\* C16: when the --hook path was a regular file as main_service began, every
\* argv handed to subprocess.run ends with --deploy-hook and the resolved
\* hook path followed by the row's fqdn, also after the file is removed.
C16_HookOnEveryInvocation ==
  (hookAtStartup /\ cmd # <<>>) =>
    /\ hook_script = "/cwd/hook.sh"
    /\ Len(cmd) = 14
    /\ cmd[13] = <<"--deploy-hook">>
    /\ cmd[14] = <<"/cwd/hook.sh", " ", ArgOf(cmd, "-d")[1]>>
    /\ pc = "in_tool" => ArgOf(cmd, "-d") = <<rows[idx + 1].fqdn>>

C16_Witness ==
  /\ pc = "in_tool" /\ hookAtStartup /\ ~hookIsFile /\ idx = 1
  /\ rows[2].fqdn = "a.example"

\* C17: a cycle keeps no progress: each cycle calls its rows from the first
\* on, the row that raises is the last one called in its cycle, and the
\* sleep that follows is RETRY_DELAY seconds, not the cycle interval.
C17_AbortRestartsFromFirstRow ==
  /\ pc \in {"check_csv", "open_csv"} => (idx = 0 /\ calls = 0)
  /\ Len(outcomes) \in {idx, idx + 1}
  /\ \A k \in 1..Len(outcomes) :
       outcomes[k] = "Raised" =>
         /\ k = Len(outcomes) /\ calls = k /\ idx = k - 1
         /\ raised \in {"TypeError", "AttributeError", "FileNotFoundError"}
         /\ pc \in {"sleep_exc", "cycle_start", "exited"}
         /\ pc = "sleep_exc" => (sleepSecs = RETRY_DELAY /\ sleepSecs # frequency * 60)
         /\ ~cycleDone

C17_Witness ==
  /\ pc = "sleep_exc" /\ frequency = 60 /\ Len(rows) = 2
  /\ outcomes = <<"AlreadyValid", "Raised">> /\ raised = "TypeError"

\* C18: a cycle whose DNS lookup fails checks and reads no input file and
\* calls no job; the error is logged and RETRY_DELAY is slept, whether the
\* input file exists or not. The existence check is made only after a
\* lookup that succeeded.
C18_DnsFailureSkipsCycle ==
  /\ dnsFailed =>
       /\ raised = "gaierror" /\ csvSeen = "unchecked"
       /\ rows = <<>> /\ calls = 0 /\ toolCalls = 0
       /\ pc \in {"sleep_exc", "cycle_start", "exited"}
       /\ pc = "sleep_exc" => (lastLog = "runtime_exception" /\ sleepSecs = RETRY_DELAY)
  /\ pc \in {"check_csv", "open_csv", "loop", "in_tool", "sleep_missing", "sleep_freq"} => ~dnsFailed
  /\ raised = "gaierror" => dnsFailed

C18_Witness ==
  /\ pc = "sleep_exc" /\ dnsFailed /\ csvExists /\ csvRows # <<>>
  /\ frequency = 60 /\ sleepSecs = RETRY_DELAY

\* C19: between the begin of one cycle and the begin of the next exactly
\* one sleep runs to its end, on every path; with a negative --frequency
\* the sleep after the rows raises and the RETRY_DELAY sleep is the one.
C19_OneSleepPerCycle ==
  /\ pc = "cycle_start" =>
       \/ lastLog = NoneVal /\ sleepsDone = 0
       \/ lastLog # NoneVal /\ sleepsDone = 1
  /\ pc \in {"check_csv", "open_csv", "loop", "in_tool"} \cup Sleeping => sleepsDone = 0
  /\ sleepsDone \in {0, 1}
  /\ (cycleDone /\ frequency < 0 /\ pc \in Sleeping)
       => ( /\ pc = "sleep_exc" /\ raised = "ValueError"
            /\ lastLog = "runtime_exception"
            /\ sleepSecs = RETRY_DELAY /\ sleepSecs # frequency * 60 )

C19_Witness ==
  /\ pc = "cycle_start" /\ sleepsDone = 1 /\ cycleDone /\ frequency = -1
  /\ raised = "ValueError" /\ sleepSecs = RETRY_DELAY /\ Len(outcomes) = 2

====
